---- MODULE Spec2Model ----
(***************************************************************************)
(* A model of add_mitigation_impact.py: one run of main(), that is         *)
(* fetch_issues (paginated search), update_messages (one rule lookup per   *)
(* issue that has a message) and the json.dump of the report.              *)
(*                                                                         *)
(* A Python dict is a function with a finite set of string keys (the empty *)
(* dict is <<>>), a Python list is a sequence, and a Python str is a       *)
(* sequence of atoms: an atom is a word without white space, or one of the *)
(* white-space characters " " and "\n" (so that str.strip() can be         *)
(* computed).                                                              *)
(***************************************************************************)
EXTENDS Integers, Sequences, FiniteSets, TLC

VARIABLES
    pc,               \* position of the run in main()
    p,                \* params["p"] of fetch_issues
    all_issues,       \* all_issues of fetch_issues
    first_page_data,  \* first_page_data of fetch_issues: <<>> is None, <<d>> is the dict d
    data,             \* data of main(): <<>> while unbound, <<d>> the dict d
    idx,              \* position of the for loop of update_messages
    file,             \* OUTPUT_FILE: whether it exists, and the chunks it holds
    file0,            \* history: OUTPUT_FILE as it was before the run
    dumping,          \* history: the chunks json.dump is to write, once the file is open
    reqs,             \* history: every request sent, in order
    pages,            \* history: the page bodies fetch_issues received, in order
    ruleResps,        \* history: the rule bodies received, in order
    orig,             \* history: the issues as fetch_issues returned them
    failedAt,         \* history: 0, or the number of requests sent when one did not succeed
    stopSeen          \* history: a page arrived whose paging metadata ends the pagination

vars == <<pc, p, all_issues, first_page_data, data, idx, file, file0,
          reqs, pages, ruleResps, orig, dumping, failedAt, stopSeen>>

-----------------------------------------------------------------------------
\* Bounds of the model.

\* Page requests explored exactly (params["p"] is tracked up to MaxPages + 1).
MaxPages == 3

\* Chunks of json.dump the buffer of the output file holds before it is written.
BufferChunks == 4

\* Program constants.
PageSizeParam == 500
DefaultPageIndex == 1
DefaultPageSize == 500
DefaultTotal == 0

-----------------------------------------------------------------------------
\* Python dict and str primitives.

EmptyDict == <<>>

\* d.get(k, default)
Get(d, k, default) == IF k \in DOMAIN d THEN d[k] ELSE default

\* d[k] = v
SetItem(d, k, v) == [x \in (DOMAIN d) \cup {k} |-> IF x = k THEN v ELSE d[x]]

\* bool(d) of a dict: an empty dict is falsy
Truthy(d) == DOMAIN d # {}

IsSpace(c) == c \in {" ", "\n"}

RECURSIVE LStrip(_)
LStrip(s) == IF s # <<>> /\ IsSpace(Head(s)) THEN LStrip(Tail(s)) ELSE s

RECURSIVE RStrip(_)
RStrip(s) ==
    IF s # <<>> /\ IsSpace(s[Len(s)]) THEN RStrip(SubSeq(s, 1, Len(s) - 1)) ELSE s

\* str.strip()
Strip(s) == RStrip(LStrip(s))

\* "{d.get(k)}" inside an f-string: a missing key formats as None
FormatGet(d, k) == IF k \in DOMAIN d THEN d[k] ELSE <<"None">>

\* sep.join(lines)
RECURSIVE Join(_, _)
Join(lines, sep) ==
    IF lines = <<>> THEN <<>>
    ELSE IF Len(lines) = 1 THEN lines[1]
    ELSE lines[1] \o sep \o Join(Tail(lines), sep)

-----------------------------------------------------------------------------
\* The SonarQube server: what it may answer.

R1 == <<"R1">>
R2 == <<"R2">>

IssueA == [key |-> <<"I1">>, rule |-> R1, message |-> <<"M1">>]
IssueB == [key |-> <<"I2">>, rule |-> R1]
IssueC == [rule |-> R2, message |-> <<"M2", " ", "m">>, severity |-> <<"MAJOR">>]
IssueD == [key |-> <<"I4">>, message |-> <<"M4">>]

\* The "issues" lists a page may carry.
IssueLists == {<<>>, <<IssueA>>, <<IssueB, IssueC>>, <<IssueD>>}

\* The "paging" objects the answer to the request for page q may carry.
Pagings(q) ==
    { [pageIndex |-> q, pageSize |-> 500, total |-> 1200],
      [pageIndex |-> q, pageSize |-> 2, total |-> 3],
      [pageSize |-> 500, total |-> 1200],
      [pageIndex |-> q, total |-> 1000],
      [pageIndex |-> q, pageSize |-> 500],
      [k \in {} |-> 0] }

\* The JSON bodies of a successful answer to the request for page q.
PageBodies(q) ==
    { [k \in ks |-> IF k = "issues" THEN l ELSE g] :
        ks \in SUBSET {"issues", "paging"}, l \in IssueLists, g \in Pagings(q) }

\* The answers to a page request: an HTTP status and a JSON body.
PageResponses(q) ==
    { [status |-> 200, body |-> b] : b \in PageBodies(q) }
        \cup { [status |-> 500, body |-> [errors |-> <<"msg">>]] }

Desc == <<" ", "Use", " ", "x", "\n">>

Impact1 == [softwareQuality |-> <<"SECURITY">>, severity |-> <<"HIGH">>]
Impact2 == [severity |-> <<"LOW">>]
Impact3 == [softwareQuality |-> <<"RELIABILITY">>]

\* The JSON bodies of a successful answer to the lookup of rule k.
RuleBodies(k) ==
    { [rule |-> [key |-> k, name |-> <<"Name", " ", "n">>, severity |-> <<"MAJOR">>,
                 htmlDesc |-> Desc, impacts |-> <<Impact1, Impact2, Impact3>>]],
      [rule |-> [key |-> k, name |-> <<"Name">>, impacts |-> <<>>]],
      [k2 \in {} |-> 0] }

RuleResponses(k) ==
    { [status |-> 200, body |-> b] : b \in RuleBodies(k) }
        \cup { [status |-> 500, body |-> [errors |-> <<"msg">>]] }

-----------------------------------------------------------------------------
\* requests: response.raise_for_status()

\* a variant that lets the status 500 pass
RaisesAbove500(status) == status > 500

RaisesForStatus(status) == status >= 400

-----------------------------------------------------------------------------
\* fetch_issues

IssuesRequest(q) ==
    [endpoint |-> "/api/issues/search", ps |-> PageSizeParam, p |-> q]

\* a variant of the break that needs the product to exceed the total
NoMorePagesStrict(paging) ==
    Get(paging, "pageIndex", DefaultPageIndex) * Get(paging, "pageSize", DefaultPageSize)
        > Get(paging, "total", DefaultTotal)

\* a variant of the break with the comparison turned round
NoMorePagesReversed(paging) ==
    Get(paging, "pageIndex", DefaultPageIndex) * Get(paging, "pageSize", DefaultPageSize)
        <= Get(paging, "total", DefaultTotal)

\* the condition of the break: no more pages
NoMorePages(paging) ==
    Get(paging, "pageIndex", DefaultPageIndex) * Get(paging, "pageSize", DefaultPageSize)
        >= Get(paging, "total", DefaultTotal)

\* the paging metadata of the page issues_data end the pagination, read as the
\* documentation of the script's server reads them
StopAnswer(issues_data) ==
    LET paging == IF "paging" \in DOMAIN issues_data THEN issues_data["paging"] ELSE <<>>
        pageIndex == IF "pageIndex" \in DOMAIN paging THEN paging["pageIndex"] ELSE 1
        pageSize == IF "pageSize" \in DOMAIN paging THEN paging["pageSize"] ELSE 500
        total == IF "total" \in DOMAIN paging THEN paging["total"] ELSE 0
    IN  pageIndex * pageSize >= total

\* a variant that puts the new page in front
ExtendFront(acc, issues_data) == Get(issues_data, "issues", <<>>) \o acc

\* all_issues.extend(issues_data.get("issues", []))
Extend(acc, issues_data) == acc \o Get(issues_data, "issues", <<>>)

\* if first_page_data is None: first_page_data = issues_data
FirstPage(fpd, issues_data) == IF fpd = <<>> THEN <<issues_data>> ELSE fpd

\* if first_page_data: first_page_data["issues"] = all_issues; return first_page_data
ReturnValue(fpd, acc) == IF Truthy(fpd) THEN SetItem(fpd, "issues", acc) ELSE fpd

-----------------------------------------------------------------------------
\* fetch_rule_details

RuleRequest(k) == [endpoint |-> "/api/rules/show", key |-> k]

\* a variant without the default "N/A" of the severity
ImpactLineNone(impact) ==
    <<"Software", " ", "Quality:", " ">> \o Get(impact, "softwareQuality", <<"N/A">>)
        \o <<",", " ", "Severity:", " ">> \o FormatGet(impact, "severity")

ImpactLine(impact) ==
    <<"Software", " ", "Quality:", " ">> \o Get(impact, "softwareQuality", <<"N/A">>)
        \o <<",", " ", "Severity:", " ">> \o Get(impact, "severity", <<"N/A">>)

MitigationText(rule_details) ==
    <<"\n", "Rule", " ", "Key:", " ">> \o FormatGet(rule_details, "key")
        \o <<"\n", "Name:", " ">> \o FormatGet(rule_details, "name")
        \o <<"\n", "Severity:", " ">> \o FormatGet(rule_details, "severity")
        \o <<"\n", "Description:", " ">> \o Strip(Get(rule_details, "htmlDesc", <<>>))
        \o <<"\n">>

ImpactDetails(impacts) ==
    IF impacts # <<>>
    THEN Join([i \in 1..Len(impacts) |-> ImpactLine(impacts[i])], <<"\n">>)
    ELSE <<>>

\* the pair fetch_rule_details returns, from the JSON body of the answer
FetchRuleDetails(body) ==
    LET rule_details == Get(body, "rule", EmptyDict)
    IN  [mitigation |-> Strip(MitigationText(rule_details)),
         impact |-> Strip(ImpactDetails(Get(rule_details, "impacts", <<>>)))]

-----------------------------------------------------------------------------
\* update_messages

\* a variant that looks a rule up for every issue
LookupAlways(issues, i) == TRUE

\* a variant that looks each rule key up once only
LookupOncePerRule(issues, i) ==
    /\ "message" \in DOMAIN issues[i]
    /\ \A j \in 1..(i - 1) :
          Get(issues[j], "rule", <<>>) # Get(issues[i], "rule", <<>>)

\* if "message" in issue
LookupNeeded(issues, i) == "message" \in DOMAIN issues[i]

\* a variant with the two texts in each other's place
NewMessageSwapped(details, message) ==
    <<"Mitigation:", " ">> \o details.impact
        \o <<"\n", "Impact:", " ">> \o details.mitigation
        \o <<"\n", "Original:", " ">> \o message

\* f"Mitigation: {mitigation}\nImpact: {impact}\nOriginal: {issue['message']}"
NewMessage(details, message) ==
    <<"Mitigation:", " ">> \o details.mitigation
        \o <<"\n", "Impact:", " ">> \o details.impact
        \o <<"\n", "Original:", " ">> \o message

-----------------------------------------------------------------------------
\* json.dump(data, f, indent=4): the chunks written, in order

KeyOrder == <<"paging", "errors", "issues">>

RECURSIVE FieldChunks(_, _)
FieldChunks(doc, i) ==
    IF i > Len(KeyOrder) THEN <<>>
    ELSE LET k == KeyOrder[i]
         IN  (IF k \notin DOMAIN doc THEN <<>>
              ELSE IF k = "issues"
                   THEN <<<<"list", k>>>>
                        \o [j \in 1..Len(doc[k]) |-> <<"item", doc[k][j]>>]
                        \o <<<<"endlist", k>>>>
                   ELSE <<<<"field", k, doc[k]>>>>)
             \o FieldChunks(doc, i + 1)

Serialize(doc) == <<<<"{">>>> \o FieldChunks(doc, 1) \o <<<<"}">>>>

-----------------------------------------------------------------------------
\* The run of main().

Absent == [exists |-> FALSE, content |-> <<>>]
Old == [exists |-> TRUE, content |-> <<<<"old">>>>]

\* a variant that opens the file to append
OpenForAppending(f) == [exists |-> TRUE, content |-> f.content]

\* open(OUTPUT_FILE, "w"): the file is created or truncated
OpenForWriting(f) == [exists |-> TRUE, content |-> <<>>]

\* except Exception as e: print(...)
Handler == "aborted"

Terminal == {"done", "aborted", "killed"}

\* an answer that is not a success, as the server sent it
NonSuccess(resp) == resp.status \notin 200..299

Init ==
    /\ pc = "fetch"
    /\ p = 1
    /\ all_issues = <<>>
    /\ first_page_data = <<>>
    /\ data = <<>>
    /\ idx = 1
    /\ file \in {Absent, Old}
    /\ file0 = file
    /\ reqs = <<>>
    /\ pages = <<>>
    /\ ruleResps = <<>>
    /\ orig = <<>>
    /\ dumping = <<>>
    /\ failedAt = 0
    /\ stopSeen = FALSE

\* line 28: requests.get(url, ..., params=params), the request leaves
SendIssuesRequest ==
    /\ pc = "fetch"
    /\ p <= MaxPages
    /\ reqs' = Append(reqs, IssuesRequest(p))
    /\ pc' = "await_page"
    /\ UNCHANGED <<p, all_issues, first_page_data, data, idx, file, file0,
                   pages, ruleResps, orig, dumping, failedAt, stopSeen>>

\* line 28: requests.get raises, the request could not be sent or answered
IssuesRequestNotSent ==
    /\ pc = "await_page"
    /\ failedAt' = Len(reqs)
    /\ pc' = Handler
    /\ UNCHANGED <<p, all_issues, first_page_data, data, idx, file, file0,
                   reqs, pages, ruleResps, orig, dumping, stopSeen>>

\* lines 29-46: one turn of the while loop on the answer resp, and the return;
\* next_p is params["p"] and log the history of pages if the loop goes on
LoopTurn(resp, next_p, log) ==
    /\ failedAt' = IF NonSuccess(resp) THEN Len(reqs) ELSE failedAt
    /\ IF RaisesForStatus(resp.status)
       THEN /\ pc' = Handler
            /\ UNCHANGED <<p, all_issues, first_page_data, data, pages, stopSeen>>
       ELSE LET issues_data == resp.body
                fpd == FirstPage(first_page_data, issues_data)
                acc == Extend(all_issues, issues_data)
            IN  /\ first_page_data' = fpd
                /\ all_issues' = acc
                /\ pages' = log
                /\ stopSeen' = (stopSeen \/ StopAnswer(issues_data))
                /\ IF NoMorePages(Get(issues_data, "paging", EmptyDict))
                   THEN /\ data' = <<ReturnValue(fpd[1], acc)>>
                        /\ pc' = "fetched"
                        /\ p' = p
                   ELSE /\ p' = next_p
                        /\ pc' = "fetch"
                        /\ data' = data
    /\ UNCHANGED <<idx, file, file0, reqs, ruleResps, orig, dumping>>

\* lines 28-46: the answer to the request for page p arrives
ReceiveIssuesPage ==
    /\ pc = "await_page"
    /\ p <= MaxPages
    /\ \E resp \in PageResponses(p) :
        LoopTurn(resp, p + 1, Append(pages, resp.body))

\* Past MaxPages the loop goes on with params["p"] standing for every larger
\* page index; the requests and pages are no longer recorded, and the server
\* sends pages without issues.
SendIssuesRequestBeyond ==
    /\ pc = "fetch"
    /\ p > MaxPages
    /\ pc' = "await_page"
    /\ UNCHANGED <<p, all_issues, first_page_data, data, idx, file, file0,
                   reqs, pages, ruleResps, orig, dumping, failedAt, stopSeen>>

ReceiveIssuesPageBeyond ==
    /\ pc = "await_page"
    /\ p > MaxPages
    /\ \E resp \in PageResponses(p) :
        /\ Get(resp.body, "issues", <<>>) = <<>>
        /\ LoopTurn(resp, p, pages)

\* lines 87-90: data is bound, len(data['issues']) is printed; the locals of
\* fetch_issues are gone
Fetched ==
    /\ pc = "fetched"
    /\ IF "issues" \in DOMAIN data[1]
       THEN /\ pc' = "enrich"
            /\ orig' = data[1]["issues"]
       ELSE /\ pc' = Handler       \* KeyError
            /\ orig' = orig
    /\ p' = 1
    /\ all_issues' = <<>>
    /\ first_page_data' = <<>>
    /\ pages' = <<>>
    /\ idx' = 1
    /\ UNCHANGED <<data, file, file0, reqs, ruleResps, dumping, failedAt, stopSeen>>

\* lines 77-78: an issue without a message is passed over
SkipIssue ==
    /\ pc = "enrich"
    /\ idx <= Len(data[1]["issues"])
    /\ ~LookupNeeded(data[1]["issues"], idx)
    /\ idx' = idx + 1
    /\ UNCHANGED <<pc, p, all_issues, first_page_data, data, file, file0,
                   reqs, pages, ruleResps, orig, dumping, failedAt, stopSeen>>

\* lines 79, 51-54: fetch_rule_details(issue["rule"]), the request leaves
SendRuleRequest ==
    /\ pc = "enrich"
    /\ idx <= Len(data[1]["issues"])
    /\ LookupNeeded(data[1]["issues"], idx)
    /\ IF "rule" \in DOMAIN data[1]["issues"][idx]
       THEN /\ reqs' = Append(reqs, RuleRequest(data[1]["issues"][idx]["rule"]))
            /\ pc' = "await_rule"
       ELSE /\ pc' = Handler       \* KeyError
            /\ reqs' = reqs
    /\ UNCHANGED <<p, all_issues, first_page_data, data, idx, file, file0,
                   pages, ruleResps, orig, dumping, failedAt, stopSeen>>

\* line 54: requests.get raises
RuleRequestNotSent ==
    /\ pc = "await_rule"
    /\ failedAt' = Len(reqs)
    /\ pc' = Handler
    /\ UNCHANGED <<p, all_issues, first_page_data, data, idx, file, file0,
                   reqs, pages, ruleResps, orig, dumping, stopSeen>>

\* lines 54-72, 80: the answer arrives and the message is rewritten
ReceiveRule ==
    /\ pc = "await_rule"
    /\ \E resp \in RuleResponses(data[1]["issues"][idx]["rule"]) :
        /\ failedAt' = IF NonSuccess(resp) THEN Len(reqs) ELSE failedAt
        /\ IF RaisesForStatus(resp.status)
           THEN /\ pc' = Handler
                /\ UNCHANGED <<data, idx, ruleResps>>
           ELSE LET issues == data[1]["issues"]
                    issue == issues[idx]
                    msg == NewMessage(FetchRuleDetails(resp.body), issue["message"])
                    updated == [issues EXCEPT ![idx] = SetItem(issue, "message", msg)]
                IN  /\ data' = <<SetItem(data[1], "issues", updated)>>
                    /\ idx' = idx + 1
                    /\ ruleResps' = Append(ruleResps, resp.body)
                    /\ pc' = "enrich"
    /\ UNCHANGED <<p, all_issues, first_page_data, file, file0, reqs, pages, orig,
                   dumping, stopSeen>>

\* lines 81, 91-93: the loop is over
Updated ==
    /\ pc = "enrich"
    /\ idx > Len(data[1]["issues"])
    /\ pc' = "open"
    /\ UNCHANGED <<p, all_issues, first_page_data, data, idx, file, file0,
                   reqs, pages, ruleResps, orig, dumping, failedAt, stopSeen>>

\* line 94: open(OUTPUT_FILE, "w")
OpenFile ==
    /\ pc = "open"
    /\ file' = OpenForWriting(file)
    /\ dumping' = Serialize(data[1])
    /\ pc' = "dump"
    /\ UNCHANGED <<p, all_issues, first_page_data, data, idx, file0,
                   reqs, pages, ruleResps, orig, failedAt, stopSeen>>

\* line 94: open raises, the path is not writable
OpenFails ==
    /\ pc = "open"
    /\ pc' = Handler
    /\ UNCHANGED <<p, all_issues, first_page_data, data, idx, file, file0,
                   reqs, pages, ruleResps, orig, dumping, failedAt, stopSeen>>

\* line 95: json.dump has filled the buffer of f, which is written to the file
FlushBuffer ==
    /\ pc = "dump"
    /\ Len(file.content) + BufferChunks < Len(Serialize(data[1]))
    /\ file' = [file EXCEPT !.content =
                    SubSeq(Serialize(data[1]), 1, Len(file.content) + BufferChunks)]
    /\ UNCHANGED <<pc, p, all_issues, first_page_data, data, idx, file0,
                   reqs, pages, ruleResps, orig, dumping, failedAt, stopSeen>>

\* lines 94-97: the dump is over; leaving the with block writes the rest and
\* closes the file
CloseFile ==
    /\ pc = "dump"
    /\ Len(file.content) + BufferChunks >= Len(Serialize(data[1]))
    /\ file' = [file EXCEPT !.content = Serialize(data[1])]
    /\ pc' = "done"
    /\ UNCHANGED <<p, all_issues, first_page_data, data, idx, file0,
                   reqs, pages, ruleResps, orig, dumping, failedAt, stopSeen>>

\* the process is terminated from outside: its memory is gone, the file stays
Interrupt ==
    /\ pc \notin Terminal
    /\ pc' = "killed"
    /\ p' = 1
    /\ all_issues' = <<>>
    /\ first_page_data' = <<>>
    /\ data' = <<>>
    /\ idx' = 1
    /\ reqs' = <<>>
    /\ pages' = <<>>
    /\ ruleResps' = <<>>
    /\ orig' = <<>>
    /\ UNCHANGED <<file, file0, dumping, failedAt, stopSeen>>

Run ==
    \/ SendIssuesRequest
    \/ IssuesRequestNotSent
    \/ ReceiveIssuesPage
    \/ Fetched
    \/ SkipIssue
    \/ SendRuleRequest
    \/ RuleRequestNotSent
    \/ ReceiveRule
    \/ Updated
    \/ OpenFile
    \/ OpenFails
    \/ FlushBuffer
    \/ CloseFile

Next == Run \/ Interrupt

Spec == Init /\ [][Next]_vars

\* A run that is not interrupted, with the pagination loop followed past
\* MaxPages; every call returns or raises, so the run always takes its next step.
NextLive == Run \/ SendIssuesRequestBeyond \/ ReceiveIssuesPageBeyond

LiveSpec == Init /\ [][NextLive]_vars /\ WF_vars(NextLive)

-----------------------------------------------------------------------------
\* Notions the properties are stated with.

IssuesEndpoint == "/api/issues/search"
RulesEndpoint == "/api/rules/show"

IsRuleRequest(r) == r.endpoint = RulesEndpoint

\* the rule lookups sent so far, in order
RuleReqs == SelectSeq(reqs, IsRuleRequest)

\* the number of page requests sent so far
NPageReqs == Len(reqs) - Len(RuleReqs)

PageIssues(body) == IF "issues" \in DOMAIN body THEN body["issues"] ELSE <<>>

\* the issues of the pages received, one page after the other
RECURSIVE Concat(_)
Concat(bodies) ==
    IF bodies = <<>> THEN <<>> ELSE PageIssues(Head(bodies)) \o Concat(Tail(bodies))

InFetch == pc \in {"fetch", "await_page"} \/ (pc = "aborted" /\ data = <<>>)

Echo1200(i) == [pageIndex |-> i, pageSize |-> 500, total |-> 1200]

Min(a, b) == IF a < b THEN a ELSE b
Max(a, b) == IF a > b THEN a ELSE b

\* the server sent full pages, consistent with one page size s and one total t
FullPages(s, t) ==
    \A i \in DOMAIN pages :
        /\ "paging" \in DOMAIN pages[i]
        /\ pages[i]["paging"] = [pageIndex |-> i, pageSize |-> s, total |-> t]
        /\ Len(PageIssues(pages[i])) = Max(0, Min(s, t - (i - 1) * s))

-----------------------------------------------------------------------------
\* C1: fetch_issues requests the pages 1, 2, 3, ... in this order, goes on
\* while no answer has paging metadata with pageIndex * pageSize >= total
\* (defaults 1, 500, 0), and returns right after the first answer that has;
\* against a server echoing the page index with pageSize 500 and total 1200
\* it sends exactly the requests for the pages 1, 2, 3.
C1_Pagination ==
    /\ \A i \in 1..NPageReqs : reqs[i] = [endpoint |-> IssuesEndpoint, ps |-> 500, p |-> i]
    /\ InFetch =>
          /\ \A i \in DOMAIN pages : ~StopAnswer(pages[i])
          /\ NPageReqs \in {Len(pages), Len(pages) + 1}
          /\ pc = "fetch" => NPageReqs = Len(pages) /\ p = Len(pages) + 1
          /\ pc = "await_page" => NPageReqs = Len(pages) + 1 /\ p = NPageReqs
    /\ pc = "fetched" =>
          /\ Len(pages) >= 1
          /\ NPageReqs = Len(pages)
          /\ StopAnswer(pages[Len(pages)])
          /\ \A i \in 1..(Len(pages) - 1) : ~StopAnswer(pages[i])
          /\ (\A i \in DOMAIN pages :
                "paging" \in DOMAIN pages[i] /\ pages[i]["paging"] = Echo1200(i))
             => NPageReqs = 3

C1_Witness ==
    /\ pc = "fetched"
    /\ NPageReqs = 3
    /\ \A i \in DOMAIN pages :
          "paging" \in DOMAIN pages[i] /\ pages[i]["paging"] = Echo1200(i)

\* C2: when fetch_issues returns, the accumulated issues are the issues of the
\* pages fetched, page after page and in each page's order, nothing dropped,
\* repeated or moved; their number is the number the pages carried, and it is
\* `total` when the server sent full pages consistent with its paging metadata.
C2_Accumulated ==
    /\ (pc \in {"fetch", "await_page", "fetched"}) => all_issues = Concat(pages)
    /\ pc = "fetched" =>
          \A s \in 1..2, t \in 0..3 : FullPages(s, t) => Len(all_issues) = t

C2_Witness ==
    /\ pc = "fetched"
    /\ Len(pages) = 2
    /\ FullPages(2, 3)
    /\ all_issues = <<IssueB, IssueC, IssueA>>

\* C3: fetch_issues returns the first page's body with its issues replaced by
\* the accumulated issues and every other field as the first page had it,
\* whatever the first page's body holds (no issues, no paging, nothing at
\* all); and the written report holds as many issues as were fetched.
C3_Envelope ==
    /\ pc = "fetched" =>
          /\ "issues" \in DOMAIN data[1]
          /\ data[1]["issues"] = all_issues
          /\ DOMAIN data[1] = (DOMAIN pages[1]) \cup {"issues"}
          /\ \A k \in (DOMAIN pages[1]) \ {"issues"} : data[1][k] = pages[1][k]
    /\ pc = "done" =>
          Cardinality({i \in DOMAIN file.content : file.content[i][1] = "item"}) = Len(orig)

\* C4: once a request of the run has not succeeded, the run is aborted, no
\* request follows the failed one and the output file is as it was before the
\* run; the file is touched only in runs whose requests all succeeded, and a
\* finished run has written the whole enriched report.
C4_FailureWritesNothing ==
    /\ failedAt # 0 => pc = "aborted" /\ Len(reqs) = failedAt /\ file = file0
    /\ file # file0 => failedAt = 0
    /\ pc = "done" =>
          /\ failedAt = 0
          /\ idx > Len(data[1]["issues"])
          /\ file = [exists |-> TRUE, content |-> Serialize(data[1])]

C4_Witness ==
    /\ pc = "aborted"
    /\ failedAt >= 3
    /\ IsRuleRequest(reqs[failedAt])
    /\ file0 = Old

IsPrefix(a, b) == Len(a) <= Len(b) /\ a = SubSeq(b, 1, Len(a))

\* C5 as stated: whenever the run may be terminated, and once it has been, the
\* output file is as it was before the run or holds the complete report.
C5_NeverPartial ==
    \/ file = file0
    \/ /\ pc \in {"dump", "done", "killed"}
       /\ file = [exists |-> TRUE, content |-> dumping]

\* C5: up to the opening of the output path the file is as it was before the
\* run; from the opening to the end of the dump it exists and holds a proper
\* prefix of the serialized report, the empty one at first; after the dump it
\* holds the complete report. A run terminated from outside leaves the file
\* in the state it had.
C5_FileStates ==
    /\ pc \in {"fetch", "await_page", "fetched", "enrich", "await_rule", "open", "aborted"}
          => file = file0
    /\ pc = "dump" =>
          /\ dumping = Serialize(data[1])
          /\ file.exists
          /\ IsPrefix(file.content, dumping)
          /\ Len(file.content) < Len(dumping)
    /\ pc = "done" => file = [exists |-> TRUE, content |-> Serialize(data[1])]
    /\ pc = "killed" =>
          \/ file = file0 /\ dumping = <<>>
          \/ file.exists /\ IsPrefix(file.content, dumping)
                         /\ Len(file.content) < Len(dumping)

C5_Witness ==
    /\ pc = "killed"
    /\ file0 = Old
    /\ file.content # <<>>
    /\ file.content # dumping
    /\ IsPrefix(file.content, dumping)

-----------------------------------------------------------------------------
\* update_messages has returned
Enriched == pc \in {"open", "dump", "done"}

HasMessage(issue) == "message" \in DOMAIN issue

\* the positions of the issues that came with a message, in order
RECURSIVE WithMessage(_, _)
WithMessage(issues, i) ==
    IF i > Len(issues) THEN <<>>
    ELSE (IF HasMessage(issues[i]) THEN <<i>> ELSE <<>>) \o WithMessage(issues, i + 1)

\* the number of issues with a message among the first n
NWithMessage(issues, n) ==
    Cardinality({i \in 1..Min(n, Len(issues)) : HasMessage(issues[i])})

\* the message claimed for the issue that had the message m, from the pair
\* fetch_rule_details returned for it
ClaimedMessage(pair, m) ==
    <<"Mitigation:", " ">> \o pair.mitigation \o <<"\n", "Impact:", " ">> \o pair.impact
        \o <<"\n", "Original:", " ">> \o m

\* C6: after update_messages, an issue that had the message M has the message
\* "Mitigation: " + mitigation + "\nImpact: " + impact + "\nOriginal: " + M,
\* with the texts fetch_rule_details gave for the lookup of that issue's own
\* rule key; its other fields, and the number and order of the issues, are as
\* they were.
C6_Messages ==
    Enriched =>
        LET issues == data[1]["issues"]
            looked == WithMessage(orig, 1)
        IN  /\ Len(issues) = Len(orig)
            /\ Len(ruleResps) = Len(looked)
            /\ Len(RuleReqs) = Len(looked)
            /\ \A j \in DOMAIN looked :
                  LET i == looked[j]
                  IN  /\ RuleReqs[j]["key"] = orig[i]["rule"]
                      /\ DOMAIN issues[i] = DOMAIN orig[i]
                      /\ \A k \in (DOMAIN orig[i]) \ {"message"} :
                            issues[i][k] = orig[i][k]
                      /\ issues[i]["message"] =
                            ClaimedMessage(FetchRuleDetails(ruleResps[j]),
                                           orig[i]["message"])

C6_Witness ==
    /\ pc = "done"
    /\ orig = <<IssueB, IssueC, IssueA>>
    /\ ruleResps[1] # ruleResps[2]

\* C7: an issue without a message is never changed, wherever it stands among
\* the others, and no rule lookup is sent for it: the lookups sent are as many
\* as the issues with a message the loop has come to.
C7_NoMessageUntouched ==
    (pc \in {"enrich", "await_rule", "open", "dump", "done"}
        \/ (pc = "aborted" /\ orig # <<>>)) =>
        LET issues == data[1]["issues"]
        IN  /\ Len(issues) = Len(orig)
            /\ \A i \in DOMAIN orig : ~HasMessage(orig[i]) => issues[i] = orig[i]
            /\ pc = "enrich" => Len(RuleReqs) = NWithMessage(orig, idx - 1)
            /\ pc = "await_rule" => Len(RuleReqs) = NWithMessage(orig, idx)
            /\ Enriched => Len(RuleReqs) = NWithMessage(orig, Len(orig))
            /\ pc = "aborted" => Len(RuleReqs) <= NWithMessage(orig, idx)

C7_Witness ==
    /\ pc = "done"
    /\ orig = <<IssueA, IssueB, IssueC>>
    /\ data[1]["issues"][2] = IssueB
    /\ Len(RuleReqs) = 2

\* C8 as stated: in a run that succeeds there is one rule lookup for each
\* issue, in the order of the issues, with the issue's rule key.
C8_OncePerIssue ==
    pc = "done" =>
        /\ Len(RuleReqs) = Len(orig)
        /\ \A i \in DOMAIN orig : RuleReqs[i]["key"] = orig[i]["rule"]

\* C8: in a run that succeeds there is one rule lookup for each issue that
\* has a message, in the order of these issues, with the issue's rule key; a
\* key that k of them share is looked up k times, and each lookup is answered
\* on its own.
C8_OncePerMessage ==
    pc = "done" =>
        LET looked == WithMessage(orig, 1)
        IN  /\ Len(RuleReqs) = Len(looked)
            /\ Len(ruleResps) = Len(looked)
            /\ \A j \in DOMAIN looked :
                  RuleReqs[j] = [endpoint |-> RulesEndpoint, key |-> orig[looked[j]]["rule"]]

C8_Witness ==
    /\ pc = "done"
    /\ orig = <<IssueA, IssueA, IssueA>>
    /\ Len(RuleReqs) = 3
    /\ ruleResps[1] # ruleResps[2]

-----------------------------------------------------------------------------
\* the impacts of the rule in the body of an answer, none when there is no list
ImpactsOf(body) ==
    IF "rule" \in DOMAIN body /\ "impacts" \in DOMAIN body["rule"]
    THEN body["rule"]["impacts"] ELSE <<>>

\* the line claimed for one impact entry
ClaimedLine(impact) ==
    <<"Software", " ", "Quality:", " ">>
        \o (IF "softwareQuality" \in DOMAIN impact THEN impact["softwareQuality"]
            ELSE <<"N/A">>)
        \o <<",", " ", "Severity:", " ">>
        \o (IF "severity" \in DOMAIN impact THEN impact["severity"] ELSE <<"N/A">>)

\* the lines of a text
RECURSIVE Lines(_, _)
Lines(text, line) ==
    IF text = <<>> THEN <<line>>
    ELSE IF Head(text) = "\n" THEN <<line>> \o Lines(Tail(text), <<>>)
    ELSE Lines(Tail(text), Append(line, Head(text)))

\* text holds part, in one piece
Holds(text, part) ==
    \E k \in 0..(Len(text) - Len(part)) : SubSeq(text, k + 1, k + Len(part)) = part

\* C9: for a rule with an empty or absent impacts list the impact text is
\* empty and the message has "Impact:" followed at once by "Original:"; for
\* a list that is not empty the impact text has one line for each entry, in
\* the order of the list, with "N/A" for a softwareQuality or severity that
\* is missing.
C9_ImpactText ==
    (pc \in {"enrich", "open", "dump", "done"}) =>
        LET looked == WithMessage(orig, 1)
        IN  \A j \in DOMAIN ruleResps :
                LET impacts == ImpactsOf(ruleResps[j])
                    text == FetchRuleDetails(ruleResps[j]).impact
                    message == data[1]["issues"][looked[j]]["message"]
                IN  IF impacts = <<>>
                    THEN /\ text = <<>>
                         /\ Holds(message, <<"\n", "Impact:", " ", "\n", "Original:", " ">>)
                    ELSE /\ Lines(text, <<>>) =
                                [n \in 1..Len(impacts) |-> ClaimedLine(impacts[n])]
                         /\ Holds(message, <<"\n", "Impact:", " ">> \o text
                                              \o <<"\n", "Original:", " ">>)

C9_Witness ==
    /\ pc = "done"
    /\ Len(ruleResps) = 3
    /\ ImpactsOf(ruleResps[1]) = <<Impact1, Impact2, Impact3>>
    /\ "rule" \in DOMAIN ruleResps[2] /\ ImpactsOf(ruleResps[2]) = <<>>
    /\ "rule" \notin DOMAIN ruleResps[3]

-----------------------------------------------------------------------------
\* the stage a position of the run belongs to
Stage(at) ==
    CASE at \in {"fetch", "await_page", "fetched"} -> 1
      [] at \in {"enrich", "await_rule"} -> 2
      [] at \in {"open", "dump"} -> 3
      [] OTHER -> 4

Ended == pc \in {"done", "aborted"}

\* C10 as stated: every run ends, written or aborted, whatever the server
\* answers.
C10_AlwaysEnds == <>Ended

\* C10: a run never goes back to a stage it has left, of fetch, enrich and
\* write; and it ends, written or aborted, unless it stays for ever in the
\* pagination loop, which happens only when no page has arrived whose paging
\* metadata satisfy pageIndex * pageSize >= total.
C10_EndsOrPages ==
    /\ [][Stage(pc') >= Stage(pc)]_vars
    /\ <>Ended \/ [](pc \in {"fetch", "await_page"} /\ ~stopSeen)

C10_Witness ==
    /\ pc = "fetch"
    /\ p > MaxPages
    /\ ~stopSeen

====
